---- MODULE Spec2Model ----
(***************************************************************************)
(* tinyups3: streaming multipart uploader.                                 *)
(*                                                                         *)
(* The repository holds several historical variants of the same program:   *)
(*   - the collector-based concurrent uploader   (src/main.go 455-700)     *)
(*   - the sequential uploader                   (src/main_test.go 145-270)*)
(*   - the mutex-guarded worker-pool uploader    (src/main_test.go 320-484)*)
(*   - the memory-sized sequential uploader      (src/main.go 56-196)      *)
(* plus two pure helpers, the part-count computation and parseS3URI.       *)
(*                                                                         *)
(* Four specifications:                                                    *)
(*   SpecParts  the part-count computation applied to bounded inputs       *)
(*   SpecURI    parseS3URI applied to bounded input strings                *)
(*   SpecSizing the memory-derived part size applied to bounded inputs     *)
(*   Spec       the uploaders, chosen by `variant` in Init                 *)
(***************************************************************************)
EXTENDS Integers, Sequences, FiniteSets, Bags, TLC

VARIABLES
    calc,       \* SpecParts: [inputSize, partSize, done, floorInc, incDec]
    uri,        \* SpecURI: the argument string, a sequence of characters
    parsed,     \* SpecURI: [done, viaURL, viaRegexp], each [err, bucket, key]
    sizing,     \* SpecSizing: [availableMB, requiredMemory, done, err, partSizeMB]
    args,           \* the command line and the environment of one run
    pc,             \* position of the main goroutine
    cfg,            \* [partSize, partsCount, concurrency] once the flags are validated
    stdin,          \* [len, pos]: bytes the input stream can yield, bytes consumed
    partNumber,     \* partNumber of the read loop
    task,           \* the reader's current partUpload
    readEOF,        \* the last read returned io.EOF or io.ErrUnexpectedEOF
    readError,      \* readError
    uploadError,    \* uploadError, written by the collector
    pool,           \* bufferPool: the buffers put back and not taken again
    bufs,           \* the buffers allocated so far: buffer -> [off, n], the input it holds
    partsChan,      \* [q, closed], and sent: the part numbers sent on it so far
    resultsChan,    \* the queued uploadResults
    workers,        \* the bag of the workers' states [pc, part, result, ctxDoneAtCall]
    collector,      \* [pc, i], and reordered: a result arrived out of part-number order
    ctxDone,        \* cancel() has been called on ctx
    completedParts, \* completedParts (collector) / parts (sequential)
    remote,         \* the storage backend and the calls made to it
    pending,        \* the error log.Fatalf is about to report
    reported        \* [exited, err]: how the process ended; first: the kind of the first fatal error

pureVars == <<calc, uri, parsed, sizing>>

upVars == <<args, pc, cfg, stdin, partNumber, task, readEOF, readError, uploadError,
            pool, bufs, partsChan, resultsChan, workers, collector, ctxDone,
            completedParts, remote, pending, reported>>

vars == <<calc, uri, parsed, sizing, args, pc, cfg, stdin, partNumber, task, readEOF, readError,
          uploadError, pool, bufs, partsChan, resultsChan, workers, collector, ctxDone,
          completedParts, remote, pending, reported>>

(***************************************************************************)
(* Values shared by the uploaders                                          *)
(***************************************************************************)

MB == 1024 * 1024

NoError == [kind |-> "none", part |-> 0, cause |-> "none"]

Err(kind, part, cause) == [kind |-> kind, part |-> part, cause |-> cause]

\* partUpload{partNumber, data, size}; data names the buffer the slice points into
NoTask == [partNumber |-> 0, data |-> 0, size |-> 0]

\* an ETag stands for what the backend stored: the part number and the input
\* bytes [off, off + n) it received under that number
NoTag == [pn |-> 0, off |-> 0, n |-> 0]

\* types.CompletedPart{ETag, PartNumber}; PartNumber is 0 (nil) in the zero value
NoPart == [PartNumber |-> 0, ETag |-> NoTag]

NoResult == [part |-> NoPart, err |-> NoError]

NoArgs == [variant |-> "none", partSizeMB |-> 0, inputSize |-> 0, concurrency |-> 0,
           nargs |-> 0, target |-> <<>>, requiredMemory |-> 0, availableMB |-> 0]

\* availableMB as Sysinfo reports it, --requiredMemory, and what main derives
NoSizing == [availableMB |-> 0, requiredMemory |-> 0, done |-> FALSE, err |-> "none",
             partSizeMB |-> 0]

NoCfg == [partSize |-> 0, partsCount |-> 0, concurrency |-> 0]

NoRemote == [state |-> "none", creates |-> 0, uploadCalls |-> {}, failed |-> {},
             uploaded |-> {}, completes |-> 0, manifest |-> <<>>,
             aborts |-> 0, abortsDelivered |-> 0, warnings |-> 0]

\* The uploader part of the state before a run starts (and, with NoArgs, in
\* the specifications of the pure helpers).
UploaderIdle(a, streamLen) ==
    /\ args = a
    /\ pc = "start"
    /\ cfg = NoCfg
    /\ stdin = [len |-> streamLen, pos |-> 0]
    /\ partNumber = 0
    /\ task = NoTask
    /\ readEOF = FALSE
    /\ readError = NoError
    /\ uploadError = NoError
    /\ pool = {}
    /\ bufs = <<>>
    /\ partsChan = [q |-> <<>>, closed |-> FALSE, sent |-> <<>>]
    /\ resultsChan = <<>>
    /\ workers = EmptyBag
    /\ collector = [pc |-> "off", i |-> 0, reordered |-> FALSE]
    /\ ctxDone = FALSE
    /\ completedParts = <<>>
    /\ remote = NoRemote
    /\ pending = NoError
    /\ reported = [exited |-> FALSE, err |-> NoError, first |-> "none"]

(***************************************************************************)
(* Part count                                                              *)
(***************************************************************************)

\* Largest inputSize and partSize the part-count computation is applied to.
MaxCalcInput == 24
MaxCalcPart == 6

PartsCountFloorOnly(inputSize, partSize) ==
    inputSize \div partSize

\* partsCount := int(inputSize / partSize); if inputSize % partSize != 0 { partsCount++ }
PartsCountFloorInc(inputSize, partSize) ==
    LET q == inputSize \div partSize
    IN  IF inputSize % partSize # 0 THEN q + 1 ELSE q

\* partsCount := int(inputSize/partSize) + 1; if inputSize % partSize == 0 { partsCount-- }
PartsCountIncDec(inputSize, partSize) ==
    LET q == (inputSize \div partSize) + 1
    IN  IF inputSize % partSize = 0 THEN q - 1 ELSE q

NoCalc == [inputSize |-> 0, partSize |-> 0, done |-> FALSE, floorInc |-> 0, incDec |-> 0]

InitParts ==
    /\ \E i \in 1..MaxCalcInput, p \in 1..MaxCalcPart :
          calc = [NoCalc EXCEPT !.inputSize = i, !.partSize = p]
    /\ uri = <<>>
    /\ parsed = [done |-> FALSE]
    /\ sizing = NoSizing
    /\ UploaderIdle(NoArgs, 0)

CalcPartsCount ==
    /\ ~calc.done
    /\ calc' = [calc EXCEPT !.done = TRUE,
                            !.floorInc = PartsCountFloorInc(calc.inputSize, calc.partSize),
                            !.incDec = PartsCountIncDec(calc.inputSize, calc.partSize)]
    /\ UNCHANGED <<uri, parsed, sizing>>
    /\ UNCHANGED upVars

NextParts == CalcPartsCount

SpecParts == InitParts /\ [][NextParts]_vars

\* ceil(a / b) for a, b > 0: the least k with k * b >= a (it is at most a / b + 1).
CeilDiv(a, b) == CHOOSE k \in 0..((a \div b) + 1) : k * b >= a /\ (k - 1) * b < a

\* C1: for every inputSize > 0 and partSize > 0 both inline forms of the part
\* count equal ceil(inputSize / partSize), which is floor + 1 exactly when the
\* remainder is non-zero; the count is at least 1 and exactly 1 when
\* inputSize <= partSize.
C1_PartsCountIsCeil ==
    calc.done =>
        /\ calc.floorInc = CeilDiv(calc.inputSize, calc.partSize)
        /\ calc.incDec = CeilDiv(calc.inputSize, calc.partSize)
        /\ calc.floorInc = (calc.inputSize \div calc.partSize)
                           + (IF calc.inputSize % calc.partSize # 0 THEN 1 ELSE 0)
        /\ calc.floorInc >= 1
        /\ (calc.inputSize <= calc.partSize => calc.floorInc = 1 /\ calc.incDec = 1)

\* A computed count for an input that is neither a multiple of the part size
\* nor within one part: three parts for 11 bytes in parts of 5.
C1_Witness ==
    /\ calc.done
    /\ calc.inputSize = 11
    /\ calc.partSize = 5
    /\ calc.floorInc = 3
    /\ calc.incDec = 3

(***************************************************************************)
(* parseS3URI                                                              *)
(*                                                                         *)
(* A string is a sequence of one-character strings.  The inputs are a      *)
(* scheme prefix followed by up to MaxRestLen characters of URIChars; the  *)
(* authority of such an input holds no '@', ':' or '[', so of net/url's    *)
(* parseAuthority only the unescaping of the host applies.                 *)
(***************************************************************************)

\* Longest text after the scheme prefix.
MaxRestLen == 5

URIChars == {"/", "k", "?", "#", "%", "4"}

S3Prefix == <<"s", "3", ":", "/", "/">>

URIPrefixes == {S3Prefix, <<"s", "3", ":", "/">>, <<"k", ":", "/", "/">>}

RECURSIVE SeqsOfLen(_)
SeqsOfLen(n) ==
    IF n = 0 THEN {<<>>}
    ELSE {Append(s, c) : s \in SeqsOfLen(n - 1), c \in URIChars}

URIRests == UNION {SeqsOfLen(n) : n \in 0..MaxRestLen}

HasPrefix(s, p) == Len(s) >= Len(p) /\ SubSeq(s, 1, Len(p)) = p

Drop(s, n) == SubSeq(s, n + 1, Len(s))

\* strings.Index for a one-character needle, 1-based; 0 when absent.
IndexOf(s, c) ==
    IF \E i \in 1..Len(s) : s[i] = c
    THEN CHOOSE i \in 1..Len(s) : s[i] = c /\ \A j \in 1..(i - 1) : s[j] # c
    ELSE 0

ParseError == [err |-> TRUE, bucket |-> <<>>, key |-> <<>>]

IsHex(c) == c = "4"

\* The byte a two-digit escape stands for: %44 is 'D'.
Unhex2(a, b) == "D"

\* net/url unescape, first pass: every '%' is followed by two hex digits.
ValidEscapes(s) ==
    \A i \in 1..Len(s) :
        s[i] = "%" => (i + 2 <= Len(s) /\ IsHex(s[i + 1]) /\ IsHex(s[i + 2]))

\* net/url unescape, second pass: each %XX becomes the byte it stands for.
RECURSIVE Unescape(_)
Unescape(s) ==
    IF s = <<>> THEN <<>>
    ELSE IF s[1] = "%" THEN <<Unhex2(s[2], s[3])>> \o Unescape(Drop(s, 3))
    ELSE <<s[1]>> \o Unescape(Drop(s, 1))

\* net/url parseHost for a host without port or brackets: an escape in the
\* host must be well formed and may only stand for a non-ASCII byte.
ValidHost(h) == \A i \in 1..Len(h) : h[i] # "%"

\* strings.TrimPrefix(s, "/")
TrimSlash(s) == IF Len(s) >= 1 /\ s[1] = "/" THEN Drop(s, 1) ELSE s

\* url.Parse(s3uri) for a string that starts with s3://, as [err, host, path].
URLParse(s) ==
    LET hash   == IndexOf(s, "#")
        u      == IF hash = 0 THEN s ELSE SubSeq(s, 1, hash - 1)
        frag   == IF hash = 0 THEN <<>> ELSE Drop(s, hash)
        \* getScheme: "s3", the rest starts after the colon
        rest0  == Drop(u, 3)
        \* a lone trailing '?' is dropped, otherwise the query is cut off at
        \* the first '?': either way the rest is the text before the first '?'
        q      == IndexOf(rest0, "?")
        rest1  == IF q = 0 THEN rest0 ELSE SubSeq(rest0, 1, q - 1)
        \* the rest starts with "//": an authority follows
        auth0  == Drop(rest1, 2)
        slash  == IndexOf(auth0, "/")
        host   == IF slash = 0 THEN auth0 ELSE SubSeq(auth0, 1, slash - 1)
        path   == IF slash = 0 THEN <<>> ELSE Drop(auth0, slash - 1)
    IN  IF ~ValidHost(host) \/ ~ValidEscapes(path) \/ ~ValidEscapes(frag)
        THEN [err |-> TRUE, host |-> <<>>, path |-> <<>>]
        ELSE [err |-> FALSE, host |-> host, path |-> Unescape(path)]

\* parseS3URI of src/main.go: strings.HasPrefix, url.Parse, u.Host, u.Path.
parseS3URI(s) ==
    IF ~HasPrefix(s, S3Prefix) THEN ParseError
    ELSE LET u == URLParse(s)
             bucket == u.host
             key == TrimSlash(u.path)
         IN  IF u.err THEN ParseError
             ELSE IF bucket = <<>> \/ key = <<>> THEN ParseError
             ELSE [err |-> FALSE, bucket |-> bucket, key |-> key]

\* parseS3URI of src/unnamed/part_001: the match of ^s3://([^/]+)/(.+)$ on a
\* string without newlines.  [^/]+ is the longest run without '/', so group 1
\* ends at the first '/' after the prefix; .+ takes all that follows.
parseS3URIRegexp(s) ==
    LET rest  == Drop(s, Len(S3Prefix))
        slash == IndexOf(rest, "/")
        matches == /\ HasPrefix(s, S3Prefix)
                   /\ slash >= 2
                   /\ Len(rest) > slash
    IN  IF ~matches THEN ParseError
        ELSE LET bucket == SubSeq(rest, 1, slash - 1)
                 key == Drop(rest, slash)
             IN  IF bucket = <<>> THEN ParseError
                 ELSE IF key = <<>> THEN ParseError
                 ELSE [err |-> FALSE, bucket |-> bucket, key |-> key]

InitURI ==
    /\ \E p \in URIPrefixes, r \in URIRests : uri = p \o r
    /\ parsed = [done |-> FALSE]
    /\ calc = NoCalc
    /\ sizing = NoSizing
    /\ UploaderIdle(NoArgs, 0)

ParseURI ==
    /\ ~parsed.done
    /\ parsed' = [done |-> TRUE, viaURL |-> parseS3URI(uri), viaRegexp |-> parseS3URIRegexp(uri)]
    /\ UNCHANGED <<calc, uri, sizing>>
    /\ UNCHANGED upVars

NextURI == ParseURI

SpecURI == InitURI /\ [][NextURI]_vars

\* What the claim asks of a parse of s: the bucket is the text between s3://
\* and the first following '/', the key all text after that '/', both
\* non-empty; any other string is an error.
ExpectedParse(s) ==
    LET rest  == Drop(s, Len(S3Prefix))
        slash == IndexOf(rest, "/")
    IN  IF HasPrefix(s, S3Prefix) /\ slash > 1 /\ slash < Len(rest)
        THEN [err |-> FALSE, bucket |-> SubSeq(rest, 1, slash - 1), key |-> Drop(rest, slash)]
        ELSE ParseError

\* C2: parseS3URI returns, for every s3://bucket/key with non-empty bucket and
\* key, exactly the bucket and exactly the key substring, unchanged, and an
\* error for every other string (both implementations).
C2_ParseExactSubstrings ==
    parsed.done =>
        /\ parsed.viaURL = ExpectedParse(uri)
        /\ parsed.viaRegexp = ExpectedParse(uri)

\* The implementation by regular expression alone does what C2 asks.
C2_RegexpParseExact ==
    parsed.done => parsed.viaRegexp = ExpectedParse(uri)

(***************************************************************************)
(* The uploaders: command line, validation, session open                   *)
(***************************************************************************)

\* Largest --concurrency and largest part count of a run.
MaxConcurrency == 2
MaxParts == 3

minPartSizeMB == 5
maxPartSizeMB == 5120
defaultRequiredMemory == 128

Min(a, b) == IF a < b THEN a ELSE b

GoodTarget == <<"s", "3", ":", "/", "/", "k", "/", "k">>

Targets == {GoodTarget, <<"s", "3", ":", "/", "/", "k", "/">>}

\* Declared sizes: one byte, whole multiples of the 5 MB part, and one MB more
\* than a multiple; 0 is the flag's default.
InputSizes ==
    {1} \cup {k * 5 * MB : k \in 1..(MaxParts - 1)} \cup {(MaxParts - 1) * 5 * MB + MB}

\* What the stream can yield for a declared size: nothing, the declared size,
\* more, less within the last part, and less by whole parts.
StreamLensFor(size) ==
    IF size <= 0 THEN {0}
    ELSE {0, size, size + MB}
         \cup (IF size > 2 * MB THEN {size - 2 * MB} ELSE {})
         \cup (IF size > 5 * MB THEN {5 * MB} ELSE {})

CollectorArgs ==
    {[NoArgs EXCEPT !.variant = "collector", !.partSizeMB = p, !.inputSize = i,
                    !.concurrency = c, !.nargs = n, !.target = t] :
        p \in {4, 5}, i \in {0} \cup InputSizes, c \in 0..MaxConcurrency,
        n \in {0, 1}, t \in Targets}

SequentialArgs ==
    {[NoArgs EXCEPT !.variant = "sequential", !.partSizeMB = p, !.inputSize = i,
                    !.nargs = n, !.target = t] :
        p \in {4, 5}, i \in {0} \cup InputSizes, n \in {0, 1}, t \in Targets}

\* The worker-pool uploader: --concurrency 0 is a value its validation rejects.
PoolArgs ==
    {[NoArgs EXCEPT !.variant = "pool", !.partSizeMB = 5, !.inputSize = i,
                    !.concurrency = c, !.nargs = 1, !.target = GoodTarget] :
        i \in InputSizes, c \in 0..MaxConcurrency}

MemoryArgs ==
    {[NoArgs EXCEPT !.variant = "memory", !.inputSize = i, !.requiredMemory = r,
                    !.availableMB = m, !.nargs = 1, !.target = t] :
        i \in {0} \cup InputSizes, r \in {0, defaultRequiredMemory},
        m \in {-1, 127, 128, 130}, t \in Targets}

\* estimateAllocatableMemory: availableMB < 0 stands for a failing Sysinfo.
estimateAllocatableMemory(availableMB, requiredMB) ==
    IF availableMB < 0 THEN "sysinfo"
    ELSE IF availableMB < requiredMB THEN "insufficient"
    ELSE "none"

PartSizeMBNoCap(availableMB, requiredMemory) ==
    IF availableMB > requiredMemory
    THEN minPartSizeMB + (availableMB - requiredMemory) \div 2
    ELSE minPartSizeMB

\* the part size of the memory-sized uploader, in MB
PartSizeMBFromMemory(availableMB, requiredMemory) ==
    LET grown == IF availableMB > requiredMemory
                 THEN minPartSizeMB + (availableMB - requiredMemory) \div 2
                 ELSE minPartSizeMB
    IN  IF grown > maxPartSizeMB THEN maxPartSizeMB ELSE grown

ArgErrorNoSizeCheck(a) ==
    IF a.variant = "memory"
    THEN IF a.requiredMemory <= 0 THEN "requiredMemory"
         ELSE IF estimateAllocatableMemory(a.availableMB, a.requiredMemory) # "none"
              THEN estimateAllocatableMemory(a.availableMB, a.requiredMemory)
         ELSE IF parseS3URI(a.target).err THEN "uri"
         ELSE "none"
    ELSE IF a.nargs # 1 THEN "usage"
         ELSE IF parseS3URI(a.target).err THEN "uri"
         ELSE "none"

\* The first check of main that fails, in the order of the variant's code.
ArgError(a) ==
    IF a.variant = "memory"
    THEN IF a.inputSize <= 0 THEN "inputSize"
         ELSE IF a.requiredMemory <= 0 THEN "requiredMemory"
         ELSE IF estimateAllocatableMemory(a.availableMB, a.requiredMemory) # "none"
              THEN estimateAllocatableMemory(a.availableMB, a.requiredMemory)
         ELSE IF parseS3URI(a.target).err THEN "uri"
         ELSE "none"
    ELSE IF a.partSizeMB < 5 THEN "partSize"
         ELSE IF a.variant = "pool" /\ a.concurrency < 1 THEN "concurrency"
         ELSE IF a.inputSize <= 0 THEN "inputSize"
         ELSE IF a.nargs # 1 THEN "usage"
         ELSE IF parseS3URI(a.target).err THEN "uri"
         ELSE "none"

\* partSize, partsCount and the effective concurrency of a valid command line.
ConfigOf(a) ==
    LET mb == IF a.variant = "memory"
              THEN PartSizeMBFromMemory(a.availableMB, a.requiredMemory)
              ELSE a.partSizeMB
        partSize == mb * 1024 * 1024
    IN  [partSize    |-> partSize,
         partsCount  |-> IF a.variant \in {"sequential", "pool"}
                         THEN PartsCountIncDec(a.inputSize, partSize)
                         ELSE PartsCountFloorInc(a.inputSize, partSize),
         concurrency |-> IF a.variant = "collector"
                         THEN (IF a.concurrency < 1 THEN 1 ELSE a.concurrency)
                         ELSE IF a.variant = "pool" THEN a.concurrency
                         ELSE 1]

(***************************************************************************)
(* The part size of the memory-sized uploader (src/main.go 66-93)          *)
(***************************************************************************)

\* Largest excess of the available memory over --requiredMemory, in MB.
MaxExcessMB == 10240

\* --requiredMemory: 0, the smallest valid value and the default.
RequiredMemories == {0, 1, defaultRequiredMemory}

\* The command line of a memory-sized run whose other arguments are valid.
SizingArgs(availableMB, requiredMemory) ==
    [NoArgs EXCEPT !.variant = "memory", !.inputSize = 1, !.nargs = 1,
                   !.target = GoodTarget, !.requiredMemory = requiredMemory,
                   !.availableMB = availableMB]

InitSizing ==
    /\ \E r \in RequiredMemories, m \in (-1)..(defaultRequiredMemory + MaxExcessMB) :
          sizing = [NoSizing EXCEPT !.availableMB = m, !.requiredMemory = r]
    /\ calc = NoCalc
    /\ uri = <<>>
    /\ parsed = [done |-> FALSE]
    /\ UploaderIdle(NoArgs, 0)

\* main from the flag checks to partSizeMB: the log.Fatalf that ends the run,
\* or the part size.
SizeFromMemory ==
    /\ ~sizing.done
    /\ LET err == ArgError(SizingArgs(sizing.availableMB, sizing.requiredMemory))
       IN  sizing' = [sizing EXCEPT
                        !.done = TRUE,
                        !.err = err,
                        !.partSizeMB =
                            IF err = "none"
                            THEN PartSizeMBFromMemory(sizing.availableMB, sizing.requiredMemory)
                            ELSE 0]
    /\ UNCHANGED <<calc, uri, parsed>>
    /\ UNCHANGED upVars

NextSizing == SizeFromMemory

SpecSizing == InitSizing /\ [][NextSizing]_vars

\* C19: in the memory-sized uploader, for requiredMemory > 0 and a memory
\* estimate that Sysinfo delivered: with less available than required the run
\* ends in the validation (before the client exists), otherwise the part size
\* is at least 5 MB and at most 5120 MB.
C19_PartSizeWithinBackendLimits ==
    (sizing.done /\ sizing.requiredMemory > 0 /\ sizing.availableMB >= 0) =>
        /\ sizing.availableMB < sizing.requiredMemory
              => (sizing.err = "insufficient" /\ sizing.partSizeMB = 0)
        /\ sizing.availableMB >= sizing.requiredMemory
              => /\ sizing.err = "none"
                 /\ sizing.partSizeMB >= 5
                 /\ sizing.partSizeMB <= 5120

\* So much memory that the derived size is cut down to the maximum.
C19_Witness ==
    /\ sizing.done
    /\ sizing.requiredMemory = defaultRequiredMemory
    /\ sizing.availableMB = defaultRequiredMemory + MaxExcessMB
    /\ sizing.partSizeMB = 5120

\* C19 in a run: a memory-sized run with less memory available than required
\* makes no remote call.
C19_InsufficientMemoryMakesNoCall ==
    (args.variant = "memory" /\ args.requiredMemory > 0
        /\ args.availableMB < args.requiredMemory)
        => (remote = NoRemote /\ pc \in {"start", "exited"})

\* C20: in the memory-sized uploader, whenever the sizing succeeds the part
\* buffer and the reserved memory fit into the available memory:
\* partSizeMB + requiredMemory <= availableMB.
C20_BufferFitsAvailableMemory ==
    (sizing.done /\ sizing.err = "none") =>
        sizing.partSizeMB + sizing.requiredMemory <= sizing.availableMB

\* What holds of C20: the buffer fits once the excess is at least 10 MB.
C20_BufferFitsFromTenMBExcess ==
    (sizing.done /\ sizing.err = "none"
        /\ sizing.availableMB - sizing.requiredMemory >= 10) =>
        sizing.partSizeMB + sizing.requiredMemory <= sizing.availableMB

Init ==
    /\ \E a \in CollectorArgs \cup SequentialArgs \cup MemoryArgs \cup PoolArgs :
          \E len \in StreamLensFor(a.inputSize) : UploaderIdle(a, len)
    /\ calc = NoCalc
    /\ uri = <<>>
    /\ parsed = [done |-> FALSE]
    /\ sizing = NoSizing

\* The record of a fatal error at the moment it occurs: the kind of the first.
Noting(r, err) == IF r.first = "none" THEN [r EXCEPT !.first = err.kind] ELSE r

Exit(err) ==
    /\ reported' = [Noting(reported, err) EXCEPT !.exited = TRUE, !.err = err]
    /\ pc' = "exited"

\* main up to the session open: flag validation, parseS3URI, LoadDefaultConfig.
Validate ==
    /\ pc = "start"
    /\ args.variant # "none"
    /\ IF ArgError(args) # "none"
       THEN /\ Exit(Err("config", 0, ArgError(args)))
            /\ cfg' = cfg
       ELSE \E loaded \in BOOLEAN :
               IF loaded
               THEN /\ cfg' = ConfigOf(args)
                    /\ pc' = "create"
                    /\ reported' = reported
               ELSE /\ Exit(Err("awsconfig", 0, "none"))
                    /\ cfg' = cfg
    /\ UNCHANGED <<args, stdin, partNumber, task, readEOF, readError, uploadError, pool,
                   bufs, partsChan, resultsChan, workers, collector, ctxDone,
                   completedParts, remote, pending>>
    /\ UNCHANGED pureVars

IdleWorker == [pc |-> "idle", part |-> NoTask, result |-> NoResult, ctxDoneAtCall |-> FALSE]

\* a worker of the worker-pool uploader before its first receive
PoolIdleWorker == [IdleWorker EXCEPT !.pc = "poolIdle"]

WorkerCountOneMore == cfg.concurrency + 1

\* `for i := 0; i < *concurrency; i++ { ... go func(workerID int) ... }`
WorkerCount == cfg.concurrency

\* CreateMultipartUpload and what follows it up to the read loop: the channels,
\* the workers and the collector (collector variant) or the single buffer.
CreateMultipartUpload ==
    /\ pc = "create"
    /\ \E ok \in BOOLEAN :
          IF ok
          THEN /\ remote' = [remote EXCEPT !.creates = @ + 1, !.state = "open"]
               /\ partNumber' = 1
               /\ reported' = reported
               /\ IF args.variant = "collector"
                  THEN /\ workers' = [wk \in {IdleWorker} |-> WorkerCount]
                       /\ collector' = [pc |-> "run", i |-> 0, reordered |-> FALSE]
                       /\ completedParts' = [k \in 1..cfg.partsCount |-> NoPart]
                       /\ bufs' = bufs
                       /\ pc' = "read"
                  ELSE IF args.variant = "pool"
                  THEN /\ workers' = [wk \in {PoolIdleWorker} |-> cfg.concurrency]
                       /\ pc' = "poolRead"
                       /\ UNCHANGED <<collector, completedParts, bufs>>
                  ELSE /\ bufs' = <<[off |-> 0, n |-> 0]>>
                       /\ pc' = "seqRead"
                       /\ UNCHANGED <<workers, collector, completedParts>>
          ELSE /\ remote' = [remote EXCEPT !.creates = @ + 1]
               /\ Exit(Err("session", 0, "create"))
               /\ UNCHANGED <<partNumber, workers, collector, completedParts, bufs>>
    /\ UNCHANGED <<args, cfg, stdin, task, readEOF, readError, uploadError, pool,
                   partsChan, resultsChan, ctxDone, pending>>
    /\ UNCHANGED pureVars

(***************************************************************************)
(* The sequential uploaders (src/main_test.go 145-270, src/main.go 56-196) *)
(***************************************************************************)

\* io.ReadAtLeast(os.Stdin, buffer, partSize), then the checks on err and n.
SeqRead ==
    /\ pc = "seqRead"
    /\ LET n == Min(cfg.partSize, stdin.len - stdin.pos)
       IN  \E failed \in BOOLEAN :
              IF failed
              THEN /\ pending' = Err("read", partNumber, "io")
                   /\ pc' = "abort"
                   /\ UNCHANGED <<stdin, bufs, readEOF>>
              ELSE /\ stdin' = [stdin EXCEPT !.pos = @ + n]
                   /\ readEOF' = (n < cfg.partSize)
                   /\ pending' = pending
                   /\ IF n = 0
                      THEN /\ pc' = "complete"
                           /\ bufs' = bufs
                      ELSE /\ pc' = "seqUpload"
                           /\ bufs' = [bufs EXCEPT ![1] = [off |-> stdin.pos, n |-> n]]
    /\ UNCHANGED <<args, cfg, partNumber, task, readError, uploadError, pool, partsChan,
                   resultsChan, workers, collector, ctxDone, completedParts, remote,
                   reported>>
    /\ UNCHANGED pureVars

\* client.UploadPart(ctx, partInput) with pn := partNumber, then the append.
SeqUploadPart ==
    /\ pc = "seqUpload"
    /\ LET tag == [pn |-> partNumber, off |-> bufs[1].off, n |-> bufs[1].n]
       IN  \E ok \in BOOLEAN :
              IF ok
              THEN /\ remote' = [remote EXCEPT !.uploadCalls = @ \cup {partNumber},
                                               !.uploaded = @ \cup {tag}]
                   /\ completedParts' = Append(completedParts,
                                               [PartNumber |-> partNumber, ETag |-> tag])
                   /\ partNumber' = partNumber + 1
                   /\ pc' = IF readEOF THEN "complete" ELSE "seqRead"
                   /\ pending' = pending
              ELSE /\ remote' = [remote EXCEPT !.uploadCalls = @ \cup {partNumber},
                                               !.failed = @ \cup {partNumber}]
                   /\ pending' = Err("upload", partNumber, "backend")
                   /\ pc' = "abort"
                   /\ UNCHANGED <<completedParts, partNumber>>
    /\ UNCHANGED <<args, cfg, stdin, task, readEOF, readError, uploadError, pool, bufs,
                   partsChan, resultsChan, workers, collector, ctxDone, reported>>
    /\ UNCHANGED pureVars

(***************************************************************************)
(* Completion, abort and exit                                              *)
(***************************************************************************)

\* The read of *part.PartNumber if every iteration shared one `part`: the
\* number of the chunk the worker took next.
DerefNextChunk(part) == part.PartNumber + 1

\* *part.PartNumber.  The pointer is &part.partNumber of the worker's range
\* variable; each iteration of `for part := range partsChan` has its own
\* variable, so the value is the number of the chunk of that iteration.
DerefPartNumber(part) == part.PartNumber

\* The Parts list as the completion call sends it.
Manifest ==
    [k \in 1..Len(completedParts) |->
        [PartNumber |-> DerefPartNumber(completedParts[k]), ETag |-> completedParts[k].ETag]]

\* The backend completes a session for a non-empty list of parts in ascending
\* order, each with the ETag it returned for that part number.
ManifestAccepted(m) ==
    /\ Len(m) >= 1
    /\ \A k \in 1..Len(m) : m[k].ETag \in remote.uploaded /\ m[k].ETag.pn = m[k].PartNumber
    /\ \A k \in 1..(Len(m) - 1) : m[k].PartNumber < m[k + 1].PartNumber

\* client.CompleteMultipartUpload and the check of its error.
CompleteMultipartUpload ==
    /\ pc = "complete"
    /\ \E ok \in {TRUE, FALSE} :
          /\ ok => ManifestAccepted(Manifest)
          /\ IF ok
             THEN /\ remote' = [remote EXCEPT !.completes = @ + 1, !.manifest = Manifest,
                                              !.state = "completed"]
                  /\ pc' = "done"
                  /\ reported' = [reported EXCEPT !.exited = TRUE, !.err = NoError]
                  /\ pending' = pending
             ELSE /\ remote' = [remote EXCEPT !.completes = @ + 1, !.manifest = Manifest]
                  /\ pending' = Err("complete", 0, "backend")
                  /\ pc' = IF args.variant = "collector" THEN "abort" ELSE "fatal"
                  /\ reported' = Noting(reported, Err("complete", 0, "backend"))
    /\ UNCHANGED <<args, cfg, stdin, partNumber, task, readEOF, readError, uploadError,
                   pool, bufs, partsChan, resultsChan, workers, collector, ctxDone,
                   completedParts>>
    /\ UNCHANGED pureVars

AbortErrorWins(err, ok) == IF ok THEN err ELSE Err("abort", 0, "backend")

\* The error main reports after abortMultipart has returned: abortMultipart
\* returns nothing, its failure is only logged (log.Printf "Warning: ...").
ErrorAfterAbort(err, ok) == err

\* abortMultipart: the call is made with ctx; a cancelled ctx fails the request
\* before it is sent.  A failure is logged as a warning.
abortMultipart ==
    /\ pc = "abort"
    /\ \E ok \in BOOLEAN :
          /\ ok => ~ctxDone
          /\ remote' = IF ok
                       THEN [remote EXCEPT !.aborts = @ + 1, !.abortsDelivered = @ + 1,
                                           !.state = "aborted"]
                       ELSE [remote EXCEPT !.aborts = @ + 1, !.warnings = @ + 1]
          /\ pending' = ErrorAfterAbort(pending, ok)
    /\ pc' = "fatal"
    /\ UNCHANGED <<args, cfg, stdin, partNumber, task, readEOF, readError, uploadError,
                   pool, bufs, partsChan, resultsChan, workers, collector, ctxDone,
                   completedParts, reported>>
    /\ UNCHANGED pureVars

\* log.Fatalf after a session was opened: the process reports the error and exits.
Fatalf ==
    /\ pc = "fatal"
    /\ Exit(pending)
    /\ UNCHANGED <<args, cfg, stdin, partNumber, task, readEOF, readError, uploadError,
                   pool, bufs, partsChan, resultsChan, workers, collector, ctxDone,
                   completedParts, remote, pending>>
    /\ UNCHANGED pureVars

(***************************************************************************)
(* The collector-based concurrent uploader (src/main.go 455-700)           *)
(***************************************************************************)

GetTheOneBuffer == {1}

\* bufferPool.Get(): an arbitrary pooled buffer, or the one New() allocates.
GetChoices == pool \cup {Len(bufs) + 1}

\* the cases of a select statement that can proceed
ReaderSelect ==
    (IF Len(partsChan.q) < cfg.concurrency THEN {"send"} ELSE {})
    \cup (IF ctxDone THEN {"done"} ELSE {})

WorkerSelect ==
    (IF Len(resultsChan) < cfg.concurrency THEN {"send"} ELSE {})
    \cup (IF ctxDone THEN {"done"} ELSE {})

CollectorSelect ==
    (IF resultsChan # <<>> THEN {"result"} ELSE {})
    \cup (IF ctxDone THEN {"done"} ELSE {})

ReadSizeOffByOne(pn) ==
    Min(cfg.partSize, args.inputSize - pn * cfg.partSize)

ReadSizeWholePart(pn) == cfg.partSize

\* remainingBytes := inputSize - (partNumber-1)*partSize; readSize is the part
\* size, or remainingBytes when that is smaller.
ReadSize(pn) ==
    LET remainingBytes == args.inputSize - (pn - 1) * cfg.partSize
    IN  IF remainingBytes < cfg.partSize THEN remainingBytes ELSE cfg.partSize

\* One pass of the read loop up to the select: Get, readSize, io.ReadFull and
\* the checks on err and n.  A failing read has consumed fewer than readSize bytes.
ReadPart ==
    /\ pc = "read"
    /\ LET readSize == ReadSize(partNumber)
           n == Min(readSize, stdin.len - stdin.pos)
       IN  \E b \in GetChoices, failed \in BOOLEAN :
              LET held == IF b > Len(bufs) THEN Append(bufs, [off |-> 0, n |-> 0]) ELSE bufs
              IN  IF failed
                  THEN \E got \in {0, Min(n, readSize - 1)} :
                          /\ stdin' = [stdin EXCEPT !.pos = @ + got]
                          /\ bufs' = [held EXCEPT ![b] = [off |-> stdin.pos, n |-> got]]
                          /\ pool' = pool \cup {b}
                          /\ readError' = Err("read", partNumber, "io")
                          /\ reported' = Noting(reported, Err("read", partNumber, "io"))
                          /\ pc' = "close"
                          /\ UNCHANGED <<task, readEOF>>
                  ELSE /\ stdin' = [stdin EXCEPT !.pos = @ + n]
                       /\ readError' = readError
                       /\ reported' = reported
                       /\ IF n = 0
                          THEN /\ bufs' = held
                               /\ pool' = pool \cup {b}
                               /\ pc' = "close"
                               /\ UNCHANGED <<task, readEOF>>
                          ELSE /\ bufs' = [held EXCEPT ![b] = [off |-> stdin.pos, n |-> n]]
                               /\ pool' = pool \ {b}
                               /\ task' = [partNumber |-> partNumber, data |-> b, size |-> n]
                               /\ readEOF' = (n < readSize)
                               /\ pc' = "dispatch"
    /\ UNCHANGED <<args, cfg, partNumber, uploadError, partsChan, resultsChan, workers,
                   collector, ctxDone, completedParts, remote, pending>>
    /\ UNCHANGED pureVars

ReaderLoopStopsEarly(pn) == pn < cfg.partsCount

\* `for partNumber <= int32(partsCount)`
ReaderLoopCondition(pn) == pn <= cfg.partsCount

\* The select that sends the task, partNumber++, and the loop's exits.  The
\* break of the ctx.Done() case leaves the select, not the loop.
Dispatch ==
    /\ pc = "dispatch"
    /\ \E c \in ReaderSelect :
          IF c = "send"
          THEN /\ partsChan' = [partsChan EXCEPT !.q = Append(@, task),
                                              !.sent = Append(@, task.partNumber)]
               /\ pool' = pool
          ELSE /\ pool' = pool \cup {task.data}
               /\ partsChan' = partsChan
    /\ partNumber' = partNumber + 1
    /\ task' = NoTask
    /\ pc' = IF readEOF THEN "close"
             ELSE IF ReaderLoopCondition(partNumber + 1) THEN "read"
             ELSE "close"
    /\ UNCHANGED <<args, cfg, stdin, readEOF, readError, uploadError, bufs, resultsChan,
                   workers, collector, ctxDone, completedParts, remote, pending, reported>>
    /\ UNCHANGED pureVars

\* close(partsChan)
ClosePartsChan ==
    /\ pc = "close"
    /\ partsChan' = [partsChan EXCEPT !.closed = TRUE]
    /\ pc' = "waitWorkers"
    /\ UNCHANGED <<args, cfg, stdin, partNumber, task, readEOF, readError, uploadError,
                   pool, bufs, resultsChan, workers, collector, ctxDone, completedParts,
                   remote, pending, reported>>
    /\ UNCHANGED pureVars

WaitWorkersWithoutWaiting ==
    /\ pc = "waitWorkers"
    /\ pc' = "waitCollector"
    /\ UNCHANGED <<args, cfg, stdin, partNumber, task, readEOF, readError, uploadError,
                   pool, bufs, partsChan, resultsChan, workers, collector, ctxDone,
                   completedParts, remote, pending, reported>>
    /\ UNCHANGED pureVars

\* workerWG.Wait()
WaitWorkers ==
    /\ pc = "waitWorkers"
    /\ \A wk \in BagToSet(workers) : wk.pc = "done"
    /\ pc' = "waitCollector"
    /\ UNCHANGED <<args, cfg, stdin, partNumber, task, readEOF, readError, uploadError,
                   pool, bufs, partsChan, resultsChan, workers, collector, ctxDone,
                   completedParts, remote, pending, reported>>
    /\ UNCHANGED pureVars

ErrorToReportReadOnly == readError

\* `if readError != nil {...}` comes before `if uploadError != nil {...}`.
ErrorToReport == IF readError # NoError THEN readError ELSE uploadError

\* collectorWG.Wait(), then the checks of readError and uploadError.
WaitCollector ==
    /\ pc = "waitCollector"
    /\ collector.pc = "done"
    /\ IF ErrorToReport # NoError
       THEN pending' = ErrorToReport /\ pc' = "abort"
       ELSE pending' = pending /\ pc' = "complete"
    /\ UNCHANGED <<args, cfg, stdin, partNumber, task, readEOF, readError, uploadError,
                   pool, bufs, partsChan, resultsChan, workers, collector, ctxDone,
                   completedParts, remote, reported>>
    /\ UNCHANGED pureVars

\* The workers run the same code and workerID is unused: a worker is known
\* by its state alone, and `workers` is the bag of these states.
Become(wk, next) == (workers (-) SetToBag({wk})) (+) SetToBag({next})

\* `for part := range partsChan`: the next task and the start of its
\* UploadPart call, or the end of the loop on the closed, drained channel.
WorkerReceive(wk) ==
    /\ wk.pc = "idle"
    /\ partsChan.q # <<>> \/ partsChan.closed
    /\ IF partsChan.q # <<>>
       THEN /\ workers' = Become(wk, [pc |-> "upload", part |-> Head(partsChan.q),
                                      result |-> NoResult, ctxDoneAtCall |-> ctxDone])
            /\ partsChan' = [partsChan EXCEPT !.q = Tail(@)]
            /\ remote' = [remote EXCEPT !.uploadCalls = @ \cup {Head(partsChan.q).partNumber}]
       ELSE /\ workers' = Become(wk, [wk EXCEPT !.pc = "done"])
            /\ UNCHANGED <<partsChan, remote>>
    /\ UNCHANGED <<args, pc, cfg, stdin, partNumber, task, readEOF, readError, uploadError,
                   pool, bufs, resultsChan, collector, ctxDone, completedParts, pending,
                   reported>>
    /\ UNCHANGED pureVars

\* How an UploadPart call can end: a call made with a cancelled ctx fails
\* without reaching the backend; otherwise the backend stores the part or
\* rejects it, and a ctx cancelled meanwhile can fail the call.
UploadOutcomes(wk) ==
    (IF wk.ctxDoneAtCall THEN {} ELSE {"ok", "backend"})
    \cup (IF ctxDone THEN {"canceled"} ELSE {})

\* The return of client.UploadPart, bufferPool.Put(&part.data) and the result.
\* Each iteration of the range loop has its own `part`, so &part.partNumber
\* keeps the number of this chunk.
WorkerUploadReturn(wk) ==
    /\ wk.pc = "upload"
    /\ LET part == wk.part
           tag == [pn |-> part.partNumber, off |-> bufs[part.data].off, n |-> part.size]
       IN  \E out \in UploadOutcomes(wk) :
              /\ workers' = Become(wk,
                    [pc |-> "send", part |-> NoTask, ctxDoneAtCall |-> FALSE,
                     result |->
                        IF out = "ok"
                        THEN [part |-> [PartNumber |-> part.partNumber, ETag |-> tag],
                              err |-> NoError]
                        ELSE [part |-> NoPart, err |-> Err("upload", part.partNumber, out)]])
              /\ remote' = IF out = "ok" THEN [remote EXCEPT !.uploaded = @ \cup {tag}]
                           ELSE IF out = "backend"
                           THEN [remote EXCEPT !.failed = @ \cup {part.partNumber}]
                           ELSE remote
              /\ reported' = IF out = "ok" THEN reported
                              ELSE Noting(reported, Err("upload", part.partNumber, out))
              /\ pool' = pool \cup {part.data}
    /\ UNCHANGED <<args, pc, cfg, stdin, partNumber, task, readEOF, readError, uploadError,
                   bufs, partsChan, resultsChan, collector, ctxDone, completedParts,
                   pending>>
    /\ UNCHANGED pureVars

\* The select that sends the result back, or returns on ctx.Done().
WorkerSend(wk) ==
    /\ wk.pc = "send"
    /\ \E c \in WorkerSelect :
          IF c = "send"
          THEN /\ resultsChan' = Append(resultsChan, wk.result)
               /\ workers' = Become(wk, IdleWorker)
          ELSE /\ resultsChan' = resultsChan
               /\ workers' = Become(wk, [IdleWorker EXCEPT !.pc = "done"])
    /\ UNCHANGED <<args, pc, cfg, stdin, partNumber, task, readEOF, readError, uploadError,
                   pool, bufs, partsChan, collector, ctxDone, completedParts, remote,
                   pending, reported>>
    /\ UNCHANGED pureVars

SlotPositional(result, i) == i

\* idx := int(*result.part.PartNumber) - 1
SlotIndex(result, i) == DerefPartNumber(result.part) - 1

\* One pass of the collector's loop: a result is stored at its part number's
\* slot, an error is recorded and cancels ctx, ctx.Done() ends the collector.
CollectorStep ==
    /\ collector.pc = "run"
    /\ \E c \in CollectorSelect :
          IF c = "result"
          THEN LET result == Head(resultsChan)
                   idx == SlotIndex(result, collector.i)
               IN  /\ resultsChan' = Tail(resultsChan)
                   /\ IF result.err # NoError
                      THEN /\ uploadError' = result.err
                           /\ ctxDone' = TRUE
                           /\ collector' = [collector EXCEPT !.pc = "done"]
                           /\ completedParts' = completedParts
                      ELSE /\ completedParts' =
                                 IF idx >= 0 /\ idx < Len(completedParts)
                                 THEN [completedParts EXCEPT ![idx + 1] = result.part]
                                 ELSE completedParts
                           /\ collector' = [pc |-> IF collector.i + 1 < cfg.partsCount
                                                   THEN "run" ELSE "done",
                                            i |-> collector.i + 1,
                                            reordered |-> collector.reordered
                                                          \/ result.part.PartNumber # collector.i + 1]
                           /\ UNCHANGED <<uploadError, ctxDone>>
          ELSE /\ collector' = [collector EXCEPT !.pc = "done"]
               /\ UNCHANGED <<resultsChan, uploadError, ctxDone, completedParts>>
    /\ UNCHANGED <<args, pc, cfg, stdin, partNumber, task, readEOF, readError, pool, bufs,
                   partsChan, workers, remote, pending, reported>>
    /\ UNCHANGED pureVars

(***************************************************************************)
(* The mutex-guarded worker-pool uploader (src/main_test.go 320-484)       *)
(***************************************************************************)

\* One pass of the read loop up to the send: io.ReadAtLeast into `buffer`,
\* the checks on err and n, and the copy of the chunk into a new partData.
\* A read error closes partChan and aborts while the workers still run.
PoolRead ==
    /\ pc = "poolRead"
    /\ LET n == Min(cfg.partSize, stdin.len - stdin.pos)
       IN  \E failed \in BOOLEAN :
              IF failed
              THEN /\ partsChan' = [partsChan EXCEPT !.closed = TRUE]
                   /\ pending' = Err("read", partNumber, "io")
                   /\ reported' = Noting(reported, Err("read", partNumber, "io"))
                   /\ pc' = "abort"
                   /\ UNCHANGED <<stdin, bufs, task, readEOF>>
              ELSE /\ stdin' = [stdin EXCEPT !.pos = @ + n]
                   /\ UNCHANGED <<partsChan, pending, reported>>
                   /\ IF n = 0
                      THEN /\ pc' = "poolClose"
                           /\ UNCHANGED <<bufs, task, readEOF>>
                      ELSE /\ bufs' = Append(bufs, [off |-> stdin.pos, n |-> n])
                           /\ task' = [partNumber |-> partNumber, data |-> Len(bufs) + 1,
                                       size |-> n]
                           /\ readEOF' = (n < cfg.partSize)
                           /\ pc' = "poolSend"
    /\ UNCHANGED <<args, cfg, partNumber, readError, uploadError, pool, resultsChan,
                   workers, collector, ctxDone, completedParts, remote>>
    /\ UNCHANGED pureVars

\* make(chan partTask, partsCount)
PoolChanCapacity == cfg.partsCount

\* partChan <- partTask{...}, partNumber++ and the break at the end of input.
PoolDispatch ==
    /\ pc = "poolSend"
    /\ Len(partsChan.q) < PoolChanCapacity
    /\ partsChan' = [partsChan EXCEPT !.q = Append(@, task),
                                      !.sent = Append(@, task.partNumber)]
    /\ partNumber' = partNumber + 1
    /\ task' = NoTask
    /\ pc' = IF readEOF THEN "poolClose" ELSE "poolRead"
    /\ UNCHANGED <<args, cfg, stdin, readEOF, readError, uploadError, pool, bufs,
                   resultsChan, workers, collector, ctxDone, completedParts, remote,
                   pending, reported>>
    /\ UNCHANGED pureVars

\* close(partChan) after the loop
PoolClose ==
    /\ pc = "poolClose"
    /\ partsChan' = [partsChan EXCEPT !.closed = TRUE]
    /\ pc' = "poolWait"
    /\ UNCHANGED <<args, cfg, stdin, partNumber, task, readEOF, readError, uploadError,
                   pool, bufs, resultsChan, workers, collector, ctxDone, completedParts,
                   remote, pending, reported>>
    /\ UNCHANGED pureVars

\* wg.Wait() and the select on errChan (resultsChan holds errChan's errors).
PoolWait ==
    /\ pc = "poolWait"
    /\ \A wk \in BagToSet(workers) : wk.pc = "done"
    /\ IF resultsChan # <<>>
       THEN /\ pending' = Head(resultsChan).err
            /\ resultsChan' = Tail(resultsChan)
            /\ pc' = "abort"
       ELSE /\ pc' = "complete"
            /\ UNCHANGED <<pending, resultsChan>>
    /\ UNCHANGED <<args, cfg, stdin, partNumber, task, readEOF, readError, uploadError,
                   pool, bufs, partsChan, workers, collector, ctxDone, completedParts,
                   remote, reported>>
    /\ UNCHANGED pureVars

\* `for task := range partChan` and the start of the UploadPart call.
PoolWorkerReceive(wk) ==
    /\ wk.pc = "poolIdle"
    /\ partsChan.q # <<>> \/ partsChan.closed
    /\ IF partsChan.q # <<>>
       THEN /\ workers' = Become(wk, [wk EXCEPT !.pc = "poolUpload",
                                                !.part = Head(partsChan.q)])
            /\ partsChan' = [partsChan EXCEPT !.q = Tail(@)]
            /\ remote' = [remote EXCEPT !.uploadCalls = @ \cup {Head(partsChan.q).partNumber}]
       ELSE /\ workers' = Become(wk, [wk EXCEPT !.pc = "done"])
            /\ UNCHANGED <<partsChan, remote>>
    /\ UNCHANGED <<args, pc, cfg, stdin, partNumber, task, readEOF, readError, uploadError,
                   pool, bufs, resultsChan, collector, ctxDone, completedParts, pending,
                   reported>>
    /\ UNCHANGED pureVars

\* completedParts = append(completedParts, ...) under partsMu
Appended(parts, part) == Append(parts, part)

\* The return of client.UploadPart: an error goes to errChan and ends the
\* worker; otherwise the part is appended under the mutex.
PoolWorkerUploadReturn(wk) ==
    /\ wk.pc = "poolUpload"
    /\ LET part == wk.part
           tag == [pn |-> part.partNumber, off |-> bufs[part.data].off, n |-> part.size]
       IN  \E ok \in BOOLEAN :
              IF ok
              THEN /\ remote' = [remote EXCEPT !.uploaded = @ \cup {tag}]
                   /\ completedParts' = Appended(completedParts,
                                            [PartNumber |-> part.partNumber, ETag |-> tag])
                   /\ workers' = Become(wk, PoolIdleWorker)
                   /\ UNCHANGED <<resultsChan, reported>>
              ELSE /\ remote' = [remote EXCEPT !.failed = @ \cup {part.partNumber}]
                   /\ resultsChan' = Append(resultsChan,
                          [part |-> NoPart, err |-> Err("upload", part.partNumber, "backend")])
                   /\ reported' = Noting(reported, Err("upload", part.partNumber, "backend"))
                   /\ workers' = Become(wk, [PoolIdleWorker EXCEPT !.pc = "done"])
                   /\ UNCHANGED completedParts
    /\ UNCHANGED <<args, pc, cfg, stdin, partNumber, task, readEOF, readError, uploadError,
                   pool, bufs, partsChan, collector, ctxDone, pending>>
    /\ UNCHANGED pureVars

\* log.Fatalf ends the process: no goroutine takes a step once it has exited.
Running == ~reported.exited

Next ==
    \/ Validate
    \/ CreateMultipartUpload
    \/ SeqRead
    \/ SeqUploadPart
    \/ ReadPart
    \/ Dispatch
    \/ ClosePartsChan
    \/ WaitWorkers
    \/ WaitCollector
    \/ \E wk \in BagToSet(workers) : Running /\ WorkerReceive(wk)
    \/ \E wk \in BagToSet(workers) : Running /\ WorkerUploadReturn(wk)
    \/ \E wk \in BagToSet(workers) : Running /\ WorkerSend(wk)
    \/ Running /\ CollectorStep
    \/ PoolRead
    \/ PoolDispatch
    \/ PoolClose
    \/ PoolWait
    \/ \E wk \in BagToSet(workers) : Running /\ PoolWorkerReceive(wk)
    \/ \E wk \in BagToSet(workers) : Running /\ PoolWorkerUploadReturn(wk)
    \/ CompleteMultipartUpload
    \/ abortMultipart
    \/ Fatalf

Spec == Init /\ [][Next]_vars

(***************************************************************************)
(* Properties of the uploaders                                             *)
(***************************************************************************)

Collector == args.variant = "collector"

Sequential == args.variant = "sequential"

\* The arrays of part numbers and of sizes a stream of exactly inputSize bytes
\* must be cut into.
ExpectedCount == CeilDiv(args.inputSize, cfg.partSize)

ExpectedLen(k) ==
    IF k < ExpectedCount THEN cfg.partSize
    ELSE IF args.inputSize % cfg.partSize = 0 THEN cfg.partSize
    ELSE args.inputSize % cfg.partSize

\* The main goroutine waits for the collector, the collector waits for a
\* result or for cancellation, and no worker is left to send or cancel.
Hung ==
    /\ pc = "waitCollector"
    /\ collector.pc = "run"
    /\ resultsChan = <<>>
    /\ ~ctxDone
    /\ \A wk \in BagToSet(workers) : wk.pc = "done"

\* C3: in the collector variant the Parts list passed to CompleteMultipartUpload
\* has exactly partsCount entries, entry k carrying part number k and a tag:
\* strictly increasing, no gap, no duplicate, no unfilled slot, whatever the
\* order in which the uploads finished.
C3_ManifestDenseAndOrdered ==
    (Collector /\ remote.completes > 0) =>
        /\ Len(remote.manifest) = cfg.partsCount
        /\ \A k \in 1..Len(remote.manifest) :
              /\ remote.manifest[k].PartNumber = k
              /\ remote.manifest[k].ETag # NoTag

\* The completion call of a three-part run with two workers whose results
\* reached the collector out of part-number order.
C3_Witness ==
    /\ Collector
    /\ remote.completes > 0
    /\ cfg.concurrency = 2
    /\ cfg.partsCount = 3
    /\ collector.reordered

\* C4: in the sequential and the collector variant, once an UploadPart call
\* has failed with a backend error CompleteMultipartUpload is never called,
\* and when part k's is the only failure of the run the error reported is the
\* backend error of part k.
C4_FailedPartIsReported ==
    (Collector \/ Sequential) =>
        /\ remote.failed # {} => remote.completes = 0
        /\ \A k \in remote.failed :
              (reported.exited /\ remote.failed = {k} /\ readError = NoError)
                  => reported.err = Err("upload", k, "backend")

\* Part 2 of 3 failed at the backend in a collector run with two workers, and
\* the process has reported that error.
C4_Witness ==
    /\ Collector
    /\ cfg.concurrency = 2
    /\ cfg.partsCount = 3
    /\ remote.failed = {2}
    /\ reported.exited
    /\ reported.err = Err("upload", 2, "backend")
    /\ remote.completes = 0

\* C5: in the sequential and the collector variant a stream that ends before
\* inputSize bytes is an input error: CompleteMultipartUpload is never
\* called, and a run that has ended has issued the abort call and reports a
\* read error.
C5_TruncatedInputIsAnError ==
    ((Collector \/ Sequential) /\ remote.state # "none" /\ stdin.len < args.inputSize) =>
        /\ remote.completes = 0
        /\ reported.exited => (reported.err.kind = "read" /\ remote.aborts = 1)

\* C6: in every variant, when the stream yields exactly inputSize bytes, every
\* part the backend stores is one of the parts 1..ceil(S/P), holds the input
\* bytes from (k-1)*P on and is P bytes long, the last S mod P (P when that
\* is zero); when the run succeeds without a failed backend call exactly the
\* parts 1..ceil(S/P) are stored, so that they concatenate to the input.
C6_ChunksAreTheInput ==
    (cfg.partSize > 0 /\ stdin.len = args.inputSize) =>
        /\ \A t \in remote.uploaded :
              /\ t.pn \in 1..ExpectedCount
              /\ t.off = (t.pn - 1) * cfg.partSize
              /\ t.n = ExpectedLen(t.pn)
        /\ \A t, u \in remote.uploaded : t.pn = u.pn => t = u
        /\ (pc = "done" /\ remote.failed = {})
              => {t.pn : t \in remote.uploaded} = 1..ExpectedCount

\* Scenario 3 in the collector variant: 11 MB in parts of 5 MB, uploaded by two
\* workers as 5 MB, 5 MB and 1 MB.
C6_Witness ==
    /\ Collector
    /\ pc = "done"
    /\ cfg.concurrency = 2
    /\ args.inputSize = 11 * MB
    /\ stdin.len = args.inputSize
    /\ remote.uploaded = {[pn |-> 1, off |-> 0, n |-> 5 * MB],
                          [pn |-> 2, off |-> 5 * MB, n |-> 5 * MB],
                          [pn |-> 3, off |-> 10 * MB, n |-> MB]}

\* The sequential variant cuts the same input the same way.
C6_WitnessSequential ==
    /\ Sequential
    /\ pc = "done"
    /\ args.inputSize = 11 * MB
    /\ stdin.len = args.inputSize
    /\ Cardinality(remote.uploaded) = 3

\* C7: the collector variant's reader never consumes more than inputSize bytes:
\* every chunk read, queued, in flight or stored lies within the first
\* inputSize bytes, and a successful run on a longer stream has consumed
\* exactly inputSize bytes.
C7_NeverReadsPastInputSize ==
    Collector =>
        /\ stdin.pos <= args.inputSize
        /\ \A t \in remote.uploaded : t.off + t.n <= args.inputSize
        /\ \A b \in 1..Len(bufs) : bufs[b].off + bufs[b].n <= args.inputSize
        /\ (pc = "done" /\ stdin.len > args.inputSize) => stdin.pos = args.inputSize

\* A successful three-part run on a stream one MB longer than declared.
C7_Witness ==
    /\ Collector
    /\ pc = "done"
    /\ cfg.partsCount = 3
    /\ stdin.len = args.inputSize + MB
    /\ stdin.pos = args.inputSize

\* C8: in the collector variant a run that opened the session and met a read
\* error, a part-upload error or a failed completion issues exactly one abort
\* call before the error is surfaced, and no run issues more than one.
C8_ExactlyOneAbortOnError ==
    Collector =>
        /\ remote.aborts <= 1
        /\ reported.exited /\ reported.err.kind \in {"read", "upload", "complete"}
              => remote.aborts = 1
        /\ Hung /\ (readError # NoError \/ remote.failed # {}) => remote.aborts = 1

\* What holds of C8: never more than one abort call, and an error that is
\* surfaced after the session was opened is preceded by exactly one.
C8_SurfacedErrorHasOneAbort ==
    Collector =>
        /\ remote.aborts <= 1
        /\ reported.exited /\ reported.err.kind \in {"read", "upload", "complete"}
              => remote.aborts = 1
        /\ pc = "fatal" => remote.aborts = 1

\* C9: in the sequential and the memory-sized variant a failed
\* CompleteMultipartUpload is followed by an abort call before the error is
\* surfaced.
C9_FailedCompletionAborts ==
    (reported.exited /\ reported.err.kind = "complete") => remote.aborts >= 1

\* C10: in the collector variant an error before the session is open makes no
\* remote change: with inputSize <= 0 or partSize < 5 MB no call is made at
\* all, and after a failed CreateMultipartUpload no UploadPart,
\* CompleteMultipartUpload or AbortMultipartUpload call is issued.
C10_NoRemoteChangeBeforeSession ==
    Collector =>
        /\ (args.inputSize <= 0 \/ args.partSizeMB < 5)
              => (remote = NoRemote /\ pc \in {"start", "exited"})
        /\ (remote.creates > 0 /\ remote.state = "none")
              => /\ remote.uploadCalls = {}
                 /\ remote.completes = 0
                 /\ remote.aborts = 0
                 /\ reported.exited
                 /\ reported.err = Err("session", 0, "create")

\* A collector run whose CreateMultipartUpload failed.
C10_Witness ==
    /\ Collector
    /\ remote.creates = 1
    /\ remote.state = "none"
    /\ reported.exited

\* The chunks a worker is uploading: the workers inside client.UploadPart.
Uploading == {wk \in BagToSet(workers) : wk.pc = "upload"}

\* The number of UploadPart calls that have been made and have not returned.
OutstandingUploads == BagCardinality([wk \in Uploading |-> workers[wk]])

\* The buffers in use: the one the reader has filled and is about to send,
\* the ones queued in partsChan and the ones an UploadPart call is reading.
LiveBufferCount ==
    (IF pc = "dispatch" THEN 1 ELSE 0) + Len(partsChan.q) + OutstandingUploads

\* C11: in the collector variant the number of live part buffers (held by the
\* reader, queued in partsChan, or read by an UploadPart call in flight) never
\* exceeds concurrency + 1.
C11_LiveBuffersAtMostConcurrencyPlusOne ==
    Collector => LiveBufferCount <= cfg.concurrency + 1

\* What the channel capacity and the worker count do bound: concurrency
\* queued, concurrency in flight and the reader's one.
C11_LiveBuffersAtMostTwiceConcurrencyPlusOne ==
    Collector => LiveBufferCount <= 2 * cfg.concurrency + 1

\* C12: in the collector variant a failed AbortMultipartUpload call is only
\* a warning: the run still ends with an error, and the error reported is the
\* read, upload or completion error that led to the abort call.
C12_AbortFailureKeepsOriginalError ==
    (Collector /\ remote.warnings > 0) =>
        /\ pc \in {"fatal", "exited"}
        /\ pending.kind \in {"read", "upload", "complete"}
        /\ pending.kind = "read" => pending = readError
        /\ pending.kind = "upload" => (readError = NoError /\ pending = uploadError)
        /\ pending.kind = "complete" =>
              (readError = NoError /\ uploadError = NoError /\ remote.completes = 1)
        /\ reported.exited => reported.err = pending

\* A completion that failed, an abort call that failed too, and the process
\* has reported the completion error.
C12_Witness ==
    /\ Collector
    /\ remote.warnings = 1
    /\ remote.completes = 1
    /\ reported.exited
    /\ reported.err = Err("complete", 0, "backend")

\* C13: in the collector variant at most concurrency UploadPart calls are
\* outstanding at any time: with the default --concurrency 1 (and with a value
\* below 1, which main replaces by 1) at most one.
C13_AtMostConcurrencyUploadsInFlight ==
    Collector =>
        /\ OutstandingUploads <= cfg.concurrency
        /\ args.concurrency <= 1 => OutstandingUploads <= 1

\* Two UploadPart calls outstanding at once with --concurrency 2.
C13_Witness ==
    /\ Collector
    /\ args.concurrency = 2
    /\ OutstandingUploads = 2

\* The buffers of the chunks queued in partsChan.
QueuedBuffers == {partsChan.q[k].data : k \in 1..Len(partsChan.q)}

\* The buffers an UploadPart call in flight is reading.
UploadingBuffers == {wk.part.data : wk \in Uploading}

\* The buffer the reader has filled and not yet sent.
ReaderBuffers == IF pc = "dispatch" THEN {task.data} ELSE {}

\* C14: in the collector variant a buffer has one owner at a time: the reader's
\* buffer, the queued chunks and the chunks in flight use pairwise different
\* buffers, none of them is in the pool where the reader could take it, and a
\* buffer queued or in flight still holds the input bytes of its chunk.
C14_BufferHasOneOwner ==
    Collector =>
        /\ \A wk \in Uploading : workers[wk] = 1
        /\ \A wk, wl \in Uploading : wk.part.data = wl.part.data => wk = wl
        /\ \A k, l \in 1..Len(partsChan.q) :
              partsChan.q[k].data = partsChan.q[l].data => k = l
        /\ QueuedBuffers \cap UploadingBuffers = {}
        /\ ReaderBuffers \cap (QueuedBuffers \cup UploadingBuffers) = {}
        /\ pool \cap (ReaderBuffers \cup QueuedBuffers \cup UploadingBuffers) = {}
        /\ \A wk \in Uploading :
              bufs[wk.part.data] = [off |-> (wk.part.partNumber - 1) * cfg.partSize,
                                    n |-> wk.part.size]
        /\ \A k \in 1..Len(partsChan.q) :
              bufs[partsChan.q[k].data] =
                  [off |-> (partsChan.q[k].partNumber - 1) * cfg.partSize,
                   n |-> partsChan.q[k].size]

\* An upload has returned its buffer to the pool and the reader has taken
\* that buffer again for a later chunk while another upload is in flight.
C14_Witness ==
    /\ Collector
    /\ pc = "dispatch"
    /\ task.partNumber = 3
    /\ task.data = 1
    /\ OutstandingUploads = 1
    /\ remote.uploaded # {}

\* C15: in the collector variant the part number the collector reads and the
\* completion call submits is the number of the chunk whose upload returned
\* the ETag: every result a worker holds or has queued pairs an ETag with the
\* number it was stored under, every filled slot k of completedParts holds the
\* ETag the backend returned for chunk k, and so does entry k of the Parts
\* list of a completion call.
C15_ETagPairedWithItsPartNumber ==
    Collector =>
        /\ \A wk \in BagToSet(workers) :
              wk.result.part # NoPart =>
                  /\ DerefPartNumber(wk.result.part) = wk.result.part.ETag.pn
                  /\ wk.result.part.ETag \in remote.uploaded
        /\ \A i \in 1..Len(resultsChan) :
              resultsChan[i].part # NoPart =>
                  DerefPartNumber(resultsChan[i].part) = resultsChan[i].part.ETag.pn
        /\ \A k \in 1..Len(completedParts) :
              completedParts[k] # NoPart =>
                  /\ DerefPartNumber(completedParts[k]) = k
                  /\ completedParts[k].ETag.pn = k
                  /\ completedParts[k].ETag.off = (k - 1) * cfg.partSize
                  /\ completedParts[k].ETag \in remote.uploaded
        /\ \A k \in 1..Len(remote.manifest) :
              remote.manifest[k].ETag # NoTag =>
                  /\ remote.manifest[k].ETag.pn = remote.manifest[k].PartNumber
                  /\ remote.manifest[k].ETag \in remote.uploaded

\* With one worker: slot 1 is filled, the result of part 2 is still queued and
\* the worker that produced it is already uploading part 3.
C15_Witness ==
    /\ Collector
    /\ cfg.concurrency = 1
    /\ cfg.partsCount = 3
    /\ Len(completedParts) = 3
    /\ completedParts[1] # NoPart
    /\ resultsChan # <<>>
    /\ Head(resultsChan).part.PartNumber = 2
    /\ \E wk \in Uploading : wk.part.partNumber = 3

\* C16: in the collector variant the part numbers sent on partsChan are
\* strictly increasing, and a run without errors sends exactly 1, 2, ...,
\* partsCount: once the read loop has ended without a read error, without a
\* cancellation and on a stream that held the declared bytes, and in every run
\* that completed.
C16_DispatchInIncreasingOrder ==
    Collector =>
        /\ \A i \in 1..(Len(partsChan.sent) - 1) : partsChan.sent[i] < partsChan.sent[i + 1]
        /\ \A i \in 1..Len(partsChan.sent) : partsChan.sent[i] \in 1..cfg.partsCount
        /\ (/\ partsChan.closed
            /\ readError = NoError
            /\ ~ctxDone
            /\ stdin.len >= args.inputSize)
              => partsChan.sent = [i \in 1..cfg.partsCount |-> i]
        /\ pc = "done" => partsChan.sent = [i \in 1..cfg.partsCount |-> i]

\* A three-part run with two workers that completed: 1, 2, 3 were sent.
C16_Witness ==
    /\ Collector
    /\ pc = "done"
    /\ cfg.concurrency = 2
    /\ partsChan.sent = <<1, 2, 3>>

\* C17: in the collector variant, when a part upload has failed before any
\* other error and a read error occurs later in the same run, the error the
\* process reports is the upload error.
C17_FirstErrorIsReported ==
    (/\ Collector
     /\ reported.exited
     /\ reported.first = "upload"
     /\ readError # NoError)
        => reported.err.kind = "upload"

\* C18: in the collector variant a --concurrency below 1 is a configuration
\* error: no remote call is made, no session is opened, and the run ends with
\* a configuration error.
C18_ConcurrencyBelowOneIsRejected ==
    (Collector /\ args.concurrency < 1) =>
        /\ remote = NoRemote
        /\ pc \in {"start", "exited"}
        /\ reported.exited => reported.err.kind = "config"

\* What the code does with such a value: it runs with one worker.
C18_ConcurrencyBelowOneRunsWithOne ==
    (Collector /\ args.concurrency < 1 /\ cfg # NoCfg) => cfg.concurrency = 1

WorkerPool == args.variant = "pool"

\* C21: in the worker-pool variant the Parts list passed to
\* CompleteMultipartUpload is in strictly increasing part-number order without
\* gaps: entry k carries part number k, whatever the order in which the
\* uploads finished.
C21_PoolManifestOrdered ==
    (WorkerPool /\ remote.completes > 0) =>
        \A k \in 1..Len(remote.manifest) : remote.manifest[k].PartNumber = k

\* What holds of C21: with one worker the list is in order.
C21_PoolManifestOrderedWithOneWorker ==
    (WorkerPool /\ remote.completes > 0 /\ cfg.concurrency = 1) =>
        \A k \in 1..Len(remote.manifest) : remote.manifest[k].PartNumber = k

\* The chunks of the worker-pool variant whose UploadPart call has not returned.
PoolUploading == {wk \in BagToSet(workers) : wk.pc = "poolUpload"}

\* The chunks read and copied whose upload has not finished: queued in
\* partChan or inside an UploadPart call.
PoolUnfinishedChunks ==
    Len(partsChan.q) + BagCardinality([wk \in PoolUploading |-> workers[wk]])

\* C22: in the worker-pool variant the number of chunks read from the input
\* whose upload has not finished (queued in partChan or in flight) never
\* exceeds concurrency + 1.
C22_PoolBackPressure ==
    WorkerPool => PoolUnfinishedChunks <= cfg.concurrency + 1

\* What bounds them: the capacity of partChan, partsCount, and the workers.
C22_PoolBoundedByPartsCount ==
    (WorkerPool /\ cfg # NoCfg) => PoolUnfinishedChunks <= cfg.partsCount + cfg.concurrency

\* C23: in the collector variant CompleteMultipartUpload and
\* AbortMultipartUpload are issued only after every worker has returned: when
\* main is about to issue either call, and ever after one was issued, no
\* UploadPart call is outstanding and no worker is left to start one.
C23_CallsAfterWorkersStopped ==
    (Collector /\ (pc \in {"complete", "abort"} \/ remote.completes > 0 \/ remote.aborts > 0)) =>
        /\ OutstandingUploads = 0
        /\ \A wk \in BagToSet(workers) : wk.pc = "done"
        /\ partsChan.closed

\* An abort call after an upload failure in a run whose two workers had both
\* made UploadPart calls.
C23_Witness ==
    /\ Collector
    /\ cfg.concurrency = 2
    /\ remote.aborts = 1
    /\ remote.failed # {}
    /\ Cardinality(remote.uploadCalls) >= 2

\* C24: in the collector variant every run that opened the session comes to
\* its end: a state in which no goroutine can take a step any more is one in
\* which main has issued the completion call or the abort call.
C24_OpenedRunTerminates ==
    (Collector /\ remote.creates > 0 /\ remote.state # "none" /\ ~ENABLED Next) =>
        (remote.completes > 0 \/ remote.aborts > 0)

\* What holds of C24: the runs that stop without either call are the ones in
\* which main waits for a collector that waits for a result no worker will
\* send, and they need a short stream or a read error.
C24_StuckRunsAreHung ==
    (Collector /\ remote.creates > 0 /\ remote.state # "none" /\ ~ENABLED Next
        /\ remote.completes = 0 /\ remote.aborts = 0)
        => (Hung /\ (stdin.len < args.inputSize \/ readError # NoError))

\* C25: in the collector variant the abort call that follows a failed part
\* upload is made with a ctx that is not cancelled, and a run that ends with
\* the upload error leaves the session aborted at the backend.
C25_AbortAfterUploadErrorIsDelivered ==
    Collector =>
        /\ (pc = "abort" /\ pending.kind = "upload") => ~ctxDone
        /\ (reported.exited /\ reported.err.kind = "upload") => remote.state = "aborted"

\* What the code does: the ctx passed to abortMultipart is the one cancel()
\* has cancelled, and no abort after an upload error reaches the backend.
C25_AbortAfterUploadErrorIsCancelled ==
    Collector =>
        /\ (pc = "abort" /\ pending.kind = "upload") => ctxDone
        /\ (reported.exited /\ reported.err.kind = "upload")
              => (remote.abortsDelivered = 0 /\ remote.warnings = 1 /\ remote.state = "open")

\* C26: in the collector variant, once cancel() has been called the reader
\* reads no further chunk from the input and sends no further chunk on
\* partsChan.
C26_ReaderStopsAfterCancel ==
    [][(Collector /\ ctxDone) => (stdin' = stdin /\ partsChan'.sent = partsChan.sent)]_vars

====
